---- MODULE Spec2Model ----
(***************************************************************************)
(* Model of cypress-extension/content.js: the data-testid highlighter.     *)
(*                                                                         *)
(* The page is a pool of elements; each is attached to the document or     *)
(* not, carries a data-testid attribute or not, and carries the class      *)
(* 'test-id-highlight' or not.  The content script keeps elementData,      *)
(* trackedElements and activeTimeouts, a debounced reconciliation, a       *)
(* MutationObserver, a tooltip, a copy-feedback node and a beforeunload    *)
(* handler.  The host page and the user are the environment.               *)
(*                                                                         *)
(* Time is counted in milliseconds and advances in steps of Quantum; a     *)
(* timer whose delay has run out fires before time advances further.       *)
(* Mutation records are delivered as a microtask: nothing but further      *)
(* work of the same host script runs while records are undelivered.        *)
(***************************************************************************)
EXTENDS Integers, FiniteSets, Sequences, TLC

\* ------------------------------------------------------------- bounds
NumElems == 2          \* elements in the pool
MaxTimers == 3         \* timers pending at the same time
MaxPending == 2        \* clipboard writes in flight at the same time
MaxBatch == 2          \* mutation records the host queues in one task
MaxBurst == 2          \* the burst counter saturates here

\* ---------------------------------------------------- program constants
DebounceWait == 100    \* debounce(scanAndHighlight, 100)
TooltipDelay == 100    \* both tooltip-removal timers
FeedbackDelay == 2000  \* the feedback-removal timer

Quantum == DebounceWait

Elems == 1..NumElems
NoAttr == "<absent>"                   \* the element has no data-testid attribute
TestIds == {"", "a"}                   \* values the host page gives data-testid
AttrValues == TestIds \cup {NoAttr}
EventTypes == {"mouseenter", "mouseleave", "click"}
TimerIds == 1..MaxTimers
TooltipNode == NumElems + 1            \* the tooltip, as a place for the pointer
NoElem == 0                            \* no element (a timer no element's handler set)

NoPass == [valid |-> FALSE, elapsed |-> 0, calls |-> 0, clean |-> FALSE,
           attach |-> 0, detach |-> 0]
NoCopy == [valid |-> FALSE, ok |-> FALSE, execFailed |-> FALSE, fallback |-> 0,
           shown |-> 0, threw |-> FALSE, textArea |-> FALSE]
NoTeardown == [done |-> FALSE, full |-> FALSE]

VARIABLES
    started,          \* the content script has run (lines 217-290)
    inDoc,            \* inDoc[e]: e is attached to the document
    testid,           \* testid[e]: e's data-testid attribute, or NoAttr
    wrapped,          \* wrapped[e]: e's parent is a plain element (no data-testid)
                      \* that holds nothing but e
    hasClass,         \* hasClass[e]: e.classList contains 'test-id-highlight'
    listeners,        \* listeners[e][ev]: listeners of highlightElement on e
    elementData,      \* the keys of the WeakMap elementData
    trackedElements,  \* the Set trackedElements
    activeTimeouts,   \* the Set activeTimeouts (timer ids)
    timers,           \* the pending timers of the event loop
    timeout,          \* debounce's closure variable: a pending timer id, or 0
    observing,        \* the MutationObserver is connected
    records,          \* mutation records queued for the observer callback
    tooltip,          \* the element whose '__testid_tooltip__' node is in the document
                      \* (a set: empty or one element)
    feedback,         \* the texts of the '__testid_copy_feedback__' nodes in the
                      \* document, in document order
    pointer,          \* what the pointer is over (a set: empty, one element, or
                      \* TooltipNode)
    pending,          \* copy actions awaiting navigator.clipboard.writeText
    clipboardApi,     \* navigator.clipboard exists on this page
    dirty,            \* history: an element changed since the last pass
    torndown,         \* history: the beforeunload handler has run
    burst,            \* history: debounced calls since the last debounced pass
    sinceCall,        \* history: time since the last debounced call (saturating)
    passLog,          \* history: the last debounced pass
    lastCopy,         \* history: the last completed copy action
    lastInitiated,    \* history: the identifier of the last copy action started
    lastClick         \* history: what the last click handler did: "copy", or
                      \* "return" at its check of the identifier ("none" before)

vars == << started, inDoc, testid, wrapped, hasClass, listeners, elementData,
           trackedElements, activeTimeouts, timers, timeout, observing, records,
           tooltip, feedback, pointer, pending, clipboardApi, dirty, torndown,
           burst, sinceCall, passLog, lastCopy, lastInitiated, lastClick >>

domVars == << inDoc, testid, wrapped >>
annotVars == << hasClass, listeners, elementData, trackedElements >>
debounceHist == << burst, sinceCall, passLog >>
copyHist == << lastCopy, lastInitiated, lastClick >>

Min(a, b) == IF a < b THEN a ELSE b
Max(a, b) == IF a > b THEN a ELSE b

\* el.dataset.testid is truthy: the attribute is present and not empty
Truthy(v) == v # NoAttr /\ v # ""

\* ------------------------------------------------------------ reconciler
\* The script's annotation state, threaded through the pure steps below;
\* attach and detach count the listener attachments and cleanupElement bodies.
Annot == [cls |-> hasClass, lis |-> listeners, data |-> elementData,
          tracked |-> trackedElements, attach |-> 0, detach |-> 0]

\* highlightElement without its guards on the class and the side-table
highlightElement_rebind(r, el) ==
    IF ~Truthy(testid[el]) THEN r
    ELSE [r EXCEPT !.cls[el] = TRUE,
                   !.lis[el] = [ev \in EventTypes |-> @[ev] + 1],
                   !.data = @ \cup {el},
                   !.tracked = @ \cup {el},
                   !.attach = @ + 1]

\* highlightElement without its check of the side-table (line 25)
highlightElement_classOnly(r, el) ==
    IF ~Truthy(testid[el]) \/ r.cls[el] THEN r
    ELSE [r EXCEPT !.cls[el] = TRUE,
                   !.lis[el] = [ev \in EventTypes |-> @[ev] + 1],
                   !.data = @ \cup {el},
                   !.tracked = @ \cup {el},
                   !.attach = @ + 1]

highlightElement(r, el) ==
    IF ~Truthy(testid[el]) \/ r.cls[el] THEN r
    ELSE IF el \in r.data THEN r
    ELSE [r EXCEPT !.cls[el] = TRUE,
                   !.lis[el] = [ev \in EventTypes |-> @[ev] + 1],
                   !.data = @ \cup {el},
                   !.tracked = @ \cup {el},
                   !.attach = @ + 1]

\* cleanupElement that leaves the click listener attached
cleanupElement_keepClick(r, el) ==
    IF el \notin r.data THEN r
    ELSE [r EXCEPT !.lis[el] = [ev \in EventTypes |->
                                   IF ev = "click" THEN @[ev] ELSE Max(0, @[ev] - 1)],
                   !.cls[el] = FALSE,
                   !.data = @ \ {el},
                   !.tracked = @ \ {el},
                   !.detach = @ + 1]

cleanupElement(r, el) ==
    IF el \notin r.data THEN r
    ELSE [r EXCEPT !.lis[el] = [ev \in EventTypes |-> Max(0, @[ev] - 1)],
                   !.cls[el] = FALSE,
                   !.data = @ \ {el},
                   !.tracked = @ \ {el},
                   !.detach = @ + 1]

\* document.querySelectorAll('[data-testid]')
querySelectorAll == {e \in Elems : inDoc[e] /\ testid[e] # NoAttr}

RECURSIVE forEachHighlight(_, _)
forEachHighlight(r, S) ==
    IF S = {} THEN r
    ELSE LET el == CHOOSE x \in S : \A y \in S : x <= y
         IN  forEachHighlight(highlightElement(r, el), S \ {el})

\* the cleanup loop testing only document.contains(el)
RECURSIVE forEachCleanup_attachedOnly(_, _, _)
forEachCleanup_attachedOnly(r, S, current) ==
    IF S = {} THEN r
    ELSE LET el == CHOOSE x \in S : \A y \in S : x <= y
             r2 == IF ~inDoc[el] THEN cleanupElement(r, el) ELSE r
         IN  forEachCleanup_attachedOnly(r2, S \ {el}, current)

RECURSIVE forEachCleanup(_, _, _)
forEachCleanup(r, S, current) ==
    IF S = {} THEN r
    ELSE LET el == CHOOSE x \in S : \A y \in S : x <= y
             r2 == IF el \notin current \/ ~inDoc[el]
                   THEN cleanupElement(r, el) ELSE r
         IN  forEachCleanup(r2, S \ {el}, current)

scanAndHighlight(r) ==
    LET currentElements == querySelectorAll
        added == forEachHighlight(r, currentElements)
    IN  forEachCleanup(added, added.tracked, currentElements)

\* the variables a reconciliation writes
SetAnnot(r) ==
    /\ hasClass' = r.cls
    /\ listeners' = r.lis
    /\ elementData' = r.data
    /\ trackedElements' = r.tracked

\* ---------------------------------------------------------------- timers
\* A pending timer: its id, the callback it runs (kind), the time left, and
\* for a callback that closes over a node (the tooltip of line 37, the feedback
\* node of line 157) whether that node is still the one in the document.  A
\* node that left the document never returns, so the flag only ever drops.
\* el is the element whose mouseLeaveHandler set the timer (NoElem for the
\* timers set elsewhere).
\* Ids nothing refers to any more are handed out again.
CanSchedule(ts) == Cardinality(ts) < MaxTimers
FreshId(ts, held) ==
    CHOOSE i \in TimerIds :
        /\ i \notin ({t.id : t \in ts} \cup held)
        /\ \A j \in TimerIds : j \notin ({t.id : t \in ts} \cup held) => i <= j

\* The timers of lines 78 and 90 drop the id setTimeout returns: nothing can
\* name them, so they are told apart only from their like (0, -1, -2, ...)
AnonId(ts, kind, delay, live, el) ==
    LET like(i) == [id |-> 0 - i, kind |-> kind, remaining |-> delay, live |-> live,
                    el |-> el]
    IN  0 - (CHOOSE i \in 0..MaxTimers :
                /\ like(i) \notin ts
                /\ \A j \in 0..MaxTimers : like(j) \notin ts => i <= j)

setTimeout(ts, id, kind, delay, live, el) ==
    ts \cup {[id |-> id, kind |-> kind, remaining |-> delay, live |-> live,
              el |-> el]}

clearTimeout(ts, id) == {t \in ts : t.id # id}

Due(t) == t \in timers /\ t.remaining = 0

\* the tooltip node left the document: closures over it now hold a detached node
DropTooltip(ts) ==
    {IF t.kind = "tooltipLeave" THEN [t EXCEPT !.live = FALSE] ELSE t : t \in ts}

\* the feedback node left the document
DropFeedback(ts) ==
    {IF t.kind = "feedback" THEN [t EXCEPT !.live = FALSE] ELSE t : t \in ts}

\* -------------------------------------------------------------- debounce
\* executedFunction: clearTimeout(timeout); timeout = setTimeout(later, wait).
\* The result is the timer queue and the closure variable.
\* executedFunction without clearTimeout(timeout): the pending timer stays
executedFunction_noClear(ts, tmo) ==
    LET id == FreshId(ts, activeTimeouts)
    IN  [timers |-> setTimeout(ts, id, "debounce", DebounceWait, FALSE, NoElem),
         timeout |-> id]

\* executedFunction that does not keep the id setTimeout returns
executedFunction_noStore(ts, tmo) ==
    LET cleared == clearTimeout(ts, tmo)
        id == FreshId(cleared, activeTimeouts)
    IN  [timers |-> setTimeout(cleared, id, "debounce", DebounceWait, FALSE,
                                NoElem),
         timeout |-> tmo]

executedFunction(ts, tmo) ==
    LET cleared == clearTimeout(ts, tmo)
        id == FreshId(cleared, activeTimeouts)
    IN  [timers |-> setTimeout(cleared, id, "debounce", DebounceWait, FALSE,
                                NoElem),
         timeout |-> id]

debouncedScanAndHighlight ==
    LET d == executedFunction(timers, timeout)
    IN  /\ CanSchedule(clearTimeout(timers, timeout))
        /\ timers' = d.timers
        /\ timeout' = d.timeout
        /\ burst' = Min(burst + 1, MaxBurst)
        /\ sinceCall' = 0
        /\ UNCHANGED passLog

\* later: clearTimeout(timeout); func().  The timer t is the one firing.
FireDebounce(t) ==
    /\ started /\ records = {}
    /\ Due(t) /\ t.kind = "debounce"
    /\ LET r == scanAndHighlight(Annot)
       IN  /\ SetAnnot(r)
           /\ passLog' = [valid |-> TRUE, elapsed |-> sinceCall, calls |-> burst,
                          clean |-> ~dirty, attach |-> r.attach,
                          detach |-> r.detach]
    /\ timers' = clearTimeout(timers \ {t}, timeout)
    /\ timeout' = 0
    /\ burst' = 0
    /\ sinceCall' = 0
    /\ dirty' = FALSE
    /\ UNCHANGED << started, domVars, activeTimeouts, observing, records, tooltip,
                    feedback, pointer, pending, clipboardApi, torndown, copyHist >>

\* ------------------------------------------------- a pass that is cut short
\* highlightElement has no try/catch: an exception raised by one of its six
\* writes (the class, line 29; the listeners, lines 116-118; elementData, line
\* 121; trackedElements, line 128) leaves the function after the `done` writes
\* before it.
AttachWrites == <<"class", "mouseenter", "mouseleave", "click", "data", "tracked">>

highlightElementThrows(r, el, done) ==
    LET did(w) == \E i \in 1..done : AttachWrites[i] = w
    IN  [r EXCEPT !.cls[el] = @ \/ did("class"),
                  !.lis[el] = [ev \in EventTypes |->
                                  IF did(ev) THEN @[ev] + 1 ELSE @[ev]],
                  !.data = IF did("data") THEN @ \cup {el} ELSE @,
                  !.tracked = IF did("tracked") THEN @ \cup {el} ELSE @]

\* highlightElement(el) would get past its checks of lines 20 and 25
WouldAttach(r, el) == Truthy(testid[el]) /\ ~r.cls[el] /\ el \notin r.data

\* scanAndHighlight in which highlightElement(el) throws: elements.forEach has
\* annotated the elements before el, and the exception leaves scanAndHighlight
\* before the rest and before the cleanup loop
scanAndHighlightThrows(r, el, done) ==
    LET before == {x \in querySelectorAll : x < el}
    IN  highlightElementThrows(forEachHighlight(r, before), el, done)

\* the debounce timer fires and the pass throws in highlightElement(el); the
\* exception leaves the timer callback and the event loop goes on
FireDebounceThrows(t, el, done) ==
    /\ started /\ records = {}
    /\ Due(t) /\ t.kind = "debounce"
    /\ el \in querySelectorAll
    /\ done \in 1..(Len(AttachWrites) - 1)
    /\ WouldAttach(forEachHighlight(Annot, {x \in querySelectorAll : x < el}), el)
    /\ SetAnnot(scanAndHighlightThrows(Annot, el, done))
    /\ timers' = clearTimeout(timers \ {t}, timeout)
    /\ timeout' = 0
    /\ burst' = 0
    /\ sinceCall' = 0
    /\ dirty' = TRUE
    /\ UNCHANGED << started, domVars, activeTimeouts, observing, records, tooltip,
                    feedback, pointer, pending, clipboardApi, torndown, passLog,
                    copyHist >>

\* ------------------------------------------------------ mutation observer
\* A record names its type and the node added, removed or changed: the
\* element `node` itself, or (wrapper) the plain element that is its parent.
Record(type, node) == [type |-> type, node |-> node, wrapper |-> FALSE]
WrapperRecord(type, node) == [type |-> type, node |-> node, wrapper |-> TRUE]

\* what the host's change queues for the observer (observe() watches
\* document.body's subtree, childList and the attribute data-testid)
Queue(recs) == IF observing THEN records \cup recs ELSE records

\* node.dataset?.testid || node.querySelector?.('[data-testid]'), read when the
\* callback runs: the pool's elements have no descendants, a wrapper has no
\* data-testid and at most the one child
IsRelevantNode(m) ==
    IF m.wrapper
    THEN wrapped[m.node] /\ testid[m.node] # NoAttr
    ELSE Truthy(testid[m.node])

hasRelevantChanges ==
    \E m \in records :
        \/ m.type = "added" /\ IsRelevantNode(m)
        \/ m.type = "removed" /\ IsRelevantNode(m)
        \/ m.type = "attributes"

ObserverCallback ==
    /\ started /\ observing /\ records # {}
    /\ IF hasRelevantChanges
       THEN debouncedScanAndHighlight
       ELSE UNCHANGED << timers, timeout, debounceHist >>
    /\ records' = {}
    /\ UNCHANGED << started, domVars, annotVars, activeTimeouts, observing, tooltip,
                    feedback, pointer, pending, clipboardApi, dirty, torndown,
                    copyHist >>

\* ---------------------------------------------------------- the host page
HostCanAct == started /\ Cardinality(records) < MaxBatch

\* changes of e reach the observer: e is in the document, or it left the
\* document in this task (the observer still watches a removed subtree until
\* its records are delivered)
Observed(e) ==
    \/ inDoc[e]
    \/ Record("removed", e) \in records
    \/ wrapped[e] /\ WrapperRecord("removed", e) \in records

\* document.body.appendChild(e)
HostInsert(e) ==
    /\ HostCanAct /\ ~inDoc[e]
    /\ ~(wrapped[e] /\ WrapperRecord("removed", e) \in records)
    /\ inDoc' = [inDoc EXCEPT ![e] = TRUE]
    /\ wrapped' = [wrapped EXCEPT ![e] = FALSE]
    /\ records' = Queue({Record("added", e)})
    /\ dirty' = TRUE
    /\ UNCHANGED << testid, hasClass, listeners, elementData, trackedElements,
                    pointer >>
    /\ UNCHANGED << started, activeTimeouts, timers, timeout, observing, tooltip,
                    feedback, pending, clipboardApi, torndown, debounceHist,
                    copyHist >>

\* e.remove()
HostRemove(e) ==
    /\ HostCanAct /\ inDoc[e]
    /\ inDoc' = [inDoc EXCEPT ![e] = FALSE]
    /\ wrapped' = [wrapped EXCEPT ![e] = FALSE]
    /\ records' = Queue({Record("removed", e)})
    /\ pointer' = pointer \ {e}
    /\ dirty' = TRUE
    /\ UNCHANGED << testid, hasClass, listeners, elementData, trackedElements >>
    /\ UNCHANGED << started, activeTimeouts, timers, timeout, observing, tooltip,
                    feedback, pending, clipboardApi, torndown, debounceHist,
                    copyHist >>

\* el.setAttribute('data-testid', v); writing the value it already has still
\* queues a record
HostSetAttr(e, v) ==
    /\ HostCanAct
    /\ v # testid[e] \/ (Observed(e) /\ observing)
    /\ testid' = [testid EXCEPT ![e] = v]
    /\ records' = IF Observed(e) THEN Queue({Record("attributes", e)}) ELSE records
    /\ dirty' = (dirty \/ v # testid[e])
    /\ UNCHANGED << inDoc, wrapped, hasClass, listeners, elementData, trackedElements,
                    pointer >>
    /\ UNCHANGED << started, activeTimeouts, timers, timeout, observing, tooltip,
                    feedback, pending, clipboardApi, torndown, debounceHist,
                    copyHist >>

HostRemoveAttr(e) ==
    /\ HostCanAct /\ testid[e] # NoAttr
    /\ testid' = [testid EXCEPT ![e] = NoAttr]
    /\ records' = IF Observed(e) THEN Queue({Record("attributes", e)}) ELSE records
    /\ dirty' = TRUE
    /\ UNCHANGED << inDoc, wrapped, hasClass, listeners, elementData, trackedElements,
                    pointer >>
    /\ UNCHANGED << started, activeTimeouts, timers, timeout, observing, tooltip,
                    feedback, pending, clipboardApi, torndown, debounceHist,
                    copyHist >>

\* w = document.createElement('div'); w.appendChild(e); body.appendChild(w),
\* or body.appendChild(w) again for the w that still holds e: the record names
\* w, and e comes into the document inside it
HostInsertWrapped(e) ==
    /\ HostCanAct /\ ~inDoc[e]
    /\ inDoc' = [inDoc EXCEPT ![e] = TRUE]
    /\ wrapped' = [wrapped EXCEPT ![e] = TRUE]
    /\ records' = Queue({WrapperRecord("added", e)})
    /\ dirty' = TRUE
    /\ UNCHANGED << testid, hasClass, listeners, elementData, trackedElements,
                    pointer >>
    /\ UNCHANGED << started, activeTimeouts, timers, timeout, observing, tooltip,
                    feedback, pending, clipboardApi, torndown, debounceHist,
                    copyHist >>

\* e.parentNode.remove(): e leaves the document inside its wrapper
HostRemoveWrapper(e) ==
    /\ HostCanAct /\ inDoc[e] /\ wrapped[e]
    /\ inDoc' = [inDoc EXCEPT ![e] = FALSE]
    /\ records' = Queue({WrapperRecord("removed", e)})
    /\ pointer' = pointer \ {e}
    /\ dirty' = TRUE
    /\ UNCHANGED << testid, wrapped, hasClass, listeners, elementData,
                    trackedElements >>
    /\ UNCHANGED << started, activeTimeouts, timers, timeout, observing, tooltip,
                    feedback, pending, clipboardApi, torndown, debounceHist,
                    copyHist >>

\* el.classList.add / remove of 'test-id-highlight' by the page: the observer's
\* attributeFilter lets no record through
HostSetClass(e, b) ==
    /\ HostCanAct /\ hasClass[e] # b
    /\ hasClass' = [hasClass EXCEPT ![e] = b]
    /\ dirty' = TRUE
    /\ UNCHANGED << inDoc, testid, wrapped, listeners, elementData,
                    trackedElements, pointer, records >>
    /\ UNCHANGED << started, activeTimeouts, timers, timeout, observing, tooltip,
                    feedback, pending, clipboardApi, torndown, debounceHist,
                    copyHist >>

\* a node the script has never seen
IsNewNode(e) ==
    /\ ~inDoc[e] /\ ~wrapped[e] /\ e \notin elementData /\ e \notin trackedElements
    /\ \A ev \in EventTypes : listeners[e][ev] = 0
    /\ e \notin tooltip
    /\ \A i \in 1..Len(pending) : pending[i].el # e

\* parent.appendChild(src.cloneNode(true)): the copy e has src's attributes and
\* classes and none of its listeners
HostInsertClone(src, e) ==
    /\ HostCanAct /\ src # e /\ IsNewNode(e)
    /\ inDoc' = [inDoc EXCEPT ![e] = TRUE]
    /\ testid' = [testid EXCEPT ![e] = testid[src]]
    /\ hasClass' = [hasClass EXCEPT ![e] = hasClass[src]]
    /\ records' = Queue({Record("added", e)})
    /\ dirty' = TRUE
    /\ UNCHANGED << wrapped, listeners, elementData, trackedElements, pointer >>
    /\ UNCHANGED << started, activeTimeouts, timers, timeout, observing, tooltip,
                    feedback, pending, clipboardApi, torndown, debounceHist,
                    copyHist >>

\* ------------------------------------------------------- tooltip, feedback
\* node.remove() of the tooltip: the pointer is no longer over it, and every
\* closure that holds it (a tooltip mouseleave timer, a tooltip click awaiting
\* the clipboard) now holds a detached node
UnliveCopies(ps) == [i \in 1..Len(ps) |-> [ps[i] EXCEPT !.live = FALSE]]

\* fallbackCopyTextToClipboard: the textarea is appended, execCommand runs
\* inside try/catch, the textarea is removed.  execFails: execCommand throws.
\* threw: an exception leaves the function; textArea: the textarea is still
\* in the document afterwards.
\* fallbackCopyTextToClipboard without the try/catch around execCommand
fallbackCopyTextToClipboard_noCatch(execFails) ==
    [copied |-> ~execFails, threw |-> execFails, textArea |-> execFails]

fallbackCopyTextToClipboard(execFails) ==
    [copied |-> ~execFails, threw |-> FALSE, textArea |-> FALSE]

\* the try/catch of clickHandler and tooltipClickHandler once writeText has
\* settled (ok) or failed: how often the fallback and showCopyFeedback run
\* the handlers with a catch block that does not call showCopyFeedback
tryCopy_silentCatch(ok, execFails) ==
    IF ok THEN [valid |-> TRUE, ok |-> TRUE, execFailed |-> FALSE, fallback |-> 0,
                shown |-> 1, threw |-> FALSE, textArea |-> FALSE]
    ELSE [valid |-> TRUE, ok |-> FALSE, execFailed |-> execFails, fallback |-> 1,
          shown |-> 0, threw |-> FALSE, textArea |-> FALSE]

tryCopy(ok, execFails) ==
    IF ok THEN [valid |-> TRUE, ok |-> TRUE, execFailed |-> FALSE, fallback |-> 0,
                shown |-> 1, threw |-> FALSE, textArea |-> FALSE]
    ELSE LET f == fallbackCopyTextToClipboard(execFails)
         IN  [valid |-> TRUE, ok |-> FALSE, execFailed |-> execFails,
              fallback |-> 1,
              shown |-> IF f.threw THEN 0 ELSE 1,
              threw |-> f.threw, textArea |-> f.textArea]

FeedbackText(testId) == "Copied: " \o testId

\* showCopyFeedback without the loop that clears activeTimeouts (lines 152-155)
showCopyFeedback_noClear(fb, ts, act, testId) ==
    LET kept == DropFeedback(ts)
        id == FreshId(kept, {timeout})
    IN  [feedback |-> Append(IF fb = << >> THEN fb ELSE Tail(fb),
                             FeedbackText(testId)),
         timers |-> setTimeout(kept, id, "feedback", FeedbackDelay, TRUE, NoElem),
         activeTimeouts |-> act \cup {id}]

\* showCopyFeedback on the feedback node, the timer queue and activeTimeouts
showCopyFeedback(fb, ts, act, testId) ==
    LET cleared == DropFeedback({t \in ts : t.id \notin act})
        id == FreshId(cleared, {timeout})
    IN  [feedback |-> Append(IF fb = << >> THEN fb ELSE Tail(fb),
                             FeedbackText(testId)),
         timers |-> setTimeout(cleared, id, "feedback", FeedbackDelay, TRUE, NoElem),
         activeTimeouts |-> {id}]

CanShow == CanSchedule({t \in timers : t.id \notin activeTimeouts})

\* the copy action c has its outcome o: feedback, then (tooltip click only,
\* and unless an exception left the catch block) tooltip.remove(); rest are
\* the copy actions still in flight
FinishCopy(c, o, rest) ==
    LET shown == o.shown > 0
        f == showCopyFeedback(feedback, timers, activeTimeouts, c.testId)
        gone == c.viaTooltip /\ c.live /\ ~o.threw
        ts == IF shown THEN f.timers ELSE timers
    IN  /\ shown => CanShow
        /\ feedback' = IF shown THEN f.feedback ELSE feedback
        /\ activeTimeouts' = IF shown THEN f.activeTimeouts ELSE activeTimeouts
        /\ timers' = IF gone THEN DropTooltip(ts) ELSE ts
        /\ tooltip' = IF gone THEN {} ELSE tooltip
        /\ pointer' = IF gone THEN pointer \ {TooltipNode} ELSE pointer
        /\ pending' = IF gone THEN UnliveCopies(rest) ELSE rest
        /\ lastCopy' = o

Copy(el, testId, viaTooltip) ==
    [el |-> el, testId |-> testId, viaTooltip |-> viaTooltip, live |-> viaTooltip]

\* the click handlers without `if (!testId) return`
StartCopy_noGuard(el, viaTooltip) ==
    LET testId == IF testid[el] = NoAttr THEN "" ELSE testid[el]
        c == Copy(el, testId, viaTooltip)
    IN  /\ lastInitiated' = testId
        /\ lastClick' = IF Truthy(testId) THEN "copy" ELSE "return"
        /\ IF clipboardApi
           THEN /\ Len(pending) < MaxPending
                /\ pending' = Append(pending, c)
                /\ UNCHANGED << activeTimeouts, timers, tooltip, feedback,
                                pointer, lastCopy >>
           ELSE \E execFails \in BOOLEAN :
                   FinishCopy(c, tryCopy(FALSE, execFails), pending)

\* clickHandler / tooltipClickHandler up to the await; without
\* navigator.clipboard the call throws inside the try and the catch runs at once
StartCopy(el, viaTooltip) ==
    LET testId == testid[el]
        c == Copy(el, testId, viaTooltip)
    IN  IF ~Truthy(testId)
        THEN /\ lastClick' = "return"
             /\ UNCHANGED << activeTimeouts, timers, tooltip, feedback, pointer,
                             pending, lastCopy, lastInitiated >>
        ELSE /\ lastInitiated' = testId
             /\ lastClick' = "copy"
             /\ IF clipboardApi
                THEN /\ Len(pending) < MaxPending
                     /\ pending' = Append(pending, c)
                     /\ UNCHANGED << activeTimeouts, timers, tooltip, feedback,
                                     pointer, lastCopy >>
                ELSE \E execFails \in BOOLEAN :
                        FinishCopy(c, tryCopy(FALSE, execFails), pending)

userFrame == << started, domVars, annotVars, timeout, observing, records,
                clipboardApi, dirty, torndown, debounceHist >>

ClickElement(e) ==
    /\ started /\ records = {}
    /\ inDoc[e] /\ listeners[e]["click"] > 0
    /\ StartCopy(e, FALSE)
    /\ UNCHANGED userFrame

ClickTooltip ==
    /\ started /\ records = {}
    /\ tooltip # {}
    /\ \E e \in tooltip : StartCopy(e, TRUE)
    /\ UNCHANGED userFrame

\* navigator.clipboard.writeText settles for the i-th copy action in flight
WriteSettles(i, ok, execFails) ==
    /\ started /\ records = {}
    /\ i \in 1..Len(pending)
    /\ ok => ~execFails
    /\ LET c == pending[i]
           rest == [j \in 1..(Len(pending) - 1) |->
                        IF j < i THEN pending[j] ELSE pending[j + 1]]
       IN  FinishCopy(c, tryCopy(ok, execFails), rest)
    /\ UNCHANGED << lastInitiated, lastClick >>
    /\ UNCHANGED userFrame

\* the feedback timer of showCopyFeedback
FireFeedback(t) ==
    /\ started /\ records = {}
    /\ Due(t) /\ t.kind = "feedback"
    /\ feedback' = IF t.live /\ feedback # << >>
                   THEN SubSeq(feedback, 1, Len(feedback) - 1) ELSE feedback
    /\ timers' = IF t.live THEN DropFeedback(timers \ {t}) ELSE timers \ {t}
    /\ activeTimeouts' = activeTimeouts \ {t.id}
    /\ UNCHANGED << tooltip, pointer, pending, copyHist >>
    /\ UNCHANGED userFrame

\* ------------------------------------------------------------ the pointer
\* mouseenter on e: mouseEnterHandler replaces the tooltip
PointerEnter(e) ==
    /\ started /\ records = {}
    /\ pointer = {} /\ inDoc[e]
    /\ pointer' = {e}
    /\ IF listeners[e]["mouseenter"] > 0
       THEN /\ tooltip' = {e}
            /\ timers' = IF tooltip # {} THEN DropTooltip(timers) ELSE timers
            /\ pending' = IF tooltip # {} THEN UnliveCopies(pending) ELSE pending
       ELSE UNCHANGED << tooltip, timers, pending >>
    /\ UNCHANGED << activeTimeouts, feedback, copyHist >>
    /\ UNCHANGED userFrame

\* mouseleave on the element under the pointer: mouseLeaveHandler
PointerLeave(e) ==
    /\ started /\ records = {}
    /\ pointer = {e}
    /\ pointer' = {}
    /\ IF listeners[e]["mouseleave"] > 0
       THEN /\ CanSchedule(timers)
            /\ timers' = setTimeout(timers,
                                    AnonId(timers, "elementLeave", TooltipDelay,
                                           FALSE, e),
                                    "elementLeave", TooltipDelay, FALSE, e)
       ELSE UNCHANGED timers
    /\ UNCHANGED << activeTimeouts, tooltip, feedback, pending, copyHist >>
    /\ UNCHANGED userFrame

\* mouseenter on the tooltip: the listener of lines 72-74 does nothing
PointerEnterTooltip ==
    /\ started /\ records = {}
    /\ pointer = {} /\ tooltip # {}
    /\ pointer' = {TooltipNode}
    /\ UNCHANGED << activeTimeouts, timers, tooltip, feedback, pending, copyHist >>
    /\ UNCHANGED userFrame

\* mouseleave on the tooltip: the listener of lines 76-83
PointerLeaveTooltip ==
    /\ started /\ records = {}
    /\ pointer = {TooltipNode}
    /\ pointer' = {}
    /\ CanSchedule(timers)
    /\ timers' = setTimeout(timers,
                            AnonId(timers, "tooltipLeave", TooltipDelay, TRUE, NoElem),
                            "tooltipLeave", TooltipDelay, TRUE, NoElem)
    /\ UNCHANGED << activeTimeouts, tooltip, feedback, pending, copyHist >>
    /\ UNCHANGED userFrame

\* the timer of mouseLeaveHandler: the tooltip goes unless it is hovered
FireElementLeave(t) ==
    /\ started /\ records = {}
    /\ Due(t) /\ t.kind = "elementLeave"
    /\ LET gone == tooltip # {} /\ pointer # {TooltipNode}
       IN  /\ tooltip' = IF gone THEN {} ELSE tooltip
           /\ timers' = IF gone THEN DropTooltip(timers \ {t}) ELSE timers \ {t}
           /\ pending' = IF gone THEN UnliveCopies(pending) ELSE pending
    /\ UNCHANGED << activeTimeouts, feedback, pointer, copyHist >>
    /\ UNCHANGED userFrame

\* the timer of the tooltip's mouseleave: its tooltip goes if still attached
FireTooltipLeave(t) ==
    /\ started /\ records = {}
    /\ Due(t) /\ t.kind = "tooltipLeave"
    /\ tooltip' = IF t.live THEN {} ELSE tooltip
    /\ pointer' = IF t.live THEN pointer \ {TooltipNode} ELSE pointer
    /\ timers' = IF t.live THEN DropTooltip(timers \ {t}) ELSE timers \ {t}
    /\ pending' = IF t.live THEN UnliveCopies(pending) ELSE pending
    /\ UNCHANGED << activeTimeouts, feedback, copyHist >>
    /\ UNCHANGED userFrame

\* --------------------------------------------------------------- teardown
\* a teardown loop that stops after the first element
forEachTracked_first(r, S) ==
    IF S = {} THEN r
    ELSE cleanupElement(r, CHOOSE x \in S : \A y \in S : x <= y)

RECURSIVE forEachTracked(_, _)
forEachTracked(r, S) ==
    IF S = {} THEN r
    ELSE LET el == CHOOSE x \in S : \A y \in S : x <= y
         IN  forEachTracked(cleanupElement(r, el), S \ {el})

\* activeTimeouts.forEach(clearTimeout); activeTimeouts.clear()
clearActiveTimeouts(ts, act) == {t \in ts : t.id \notin act}

\* the beforeunload handler
BeforeUnload ==
    /\ started /\ records = {}
    /\ SetAnnot(forEachTracked(Annot, trackedElements))
    /\ timers' = DropFeedback(DropTooltip(clearActiveTimeouts(timers, activeTimeouts)))
    /\ activeTimeouts' = {}
    /\ observing' = FALSE
    /\ tooltip' = {}
    /\ feedback' = IF feedback = << >> THEN feedback ELSE Tail(feedback)
    /\ pointer' = pointer \ {TooltipNode}
    /\ pending' = UnliveCopies(pending)
    /\ torndown' = [done |-> TRUE,
                    full |-> /\ trackedElements # {} /\ activeTimeouts # {}
                             /\ tooltip # {} /\ feedback # << >>]
    /\ dirty' = (dirty \/ trackedElements # {})
    /\ UNCHANGED << started, domVars, timeout, records, clipboardApi,
                    debounceHist, copyHist >>

\* ------------------------------------------------------------ the script
\* the script's top level: the initial run and observer.observe
LoadScript ==
    /\ ~started
    /\ started' = TRUE
    /\ SetAnnot(scanAndHighlight(Annot))
    /\ observing' = TRUE
    /\ dirty' = FALSE
    /\ UNCHANGED << domVars, activeTimeouts, timers, timeout, records, tooltip,
                    feedback, pointer, pending, clipboardApi, torndown,
                    debounceHist, copyHist >>

\* A quantum passes for the timer t.  The quanta of a delay longer than one
\* quantum are not counted: such a timer falls due (lapse) after some ticks.
Elapse(t, lapse) ==
    IF t.remaining > Quantum
    THEN [t EXCEPT !.remaining = IF lapse THEN 0 ELSE @]
    ELSE [t EXCEPT !.remaining = @ - Quantum]

\* time passes; a due timer fires first
Tick ==
    /\ started /\ records = {}
    /\ timers # {}
    /\ \A t \in timers : t.remaining >= Quantum
    /\ \E lapse \in BOOLEAN : timers' = {Elapse(t, lapse) : t \in timers}
    /\ sinceCall' = IF burst > 0 THEN Min(sinceCall + Quantum, DebounceWait)
                    ELSE sinceCall
    /\ UNCHANGED << started, domVars, annotVars, activeTimeouts, timeout, observing,
                    records, tooltip, feedback, pointer, pending, clipboardApi,
                    dirty, torndown, burst, passLog, copyHist >>

\* the script's own state before it runs
InitScript ==
    /\ started = FALSE
    /\ listeners = [e \in Elems |-> [ev \in EventTypes |-> 0]]
    /\ elementData = {}
    /\ trackedElements = {}
    /\ activeTimeouts = {}
    /\ timers = {}
    /\ timeout = 0
    /\ observing = FALSE
    /\ records = {}
    /\ tooltip = {}
    /\ feedback = << >>
    /\ pointer = {}
    /\ pending = << >>
    /\ clipboardApi \in BOOLEAN
    /\ dirty = TRUE
    /\ torndown = NoTeardown
    /\ burst = 0
    /\ sinceCall = 0
    /\ passLog = NoPass
    /\ lastCopy = NoCopy
    /\ lastInitiated = ""
    /\ lastClick = "none"

\* any document the script may be loaded into
Init ==
    /\ inDoc \in [Elems -> BOOLEAN]
    /\ testid \in [Elems -> AttrValues]
    /\ wrapped \in [Elems -> BOOLEAN]
    /\ hasClass \in [Elems -> BOOLEAN]
    /\ InitScript

Next ==
    \/ LoadScript
    \/ \E e \in Elems : HostInsert(e)
    \/ \E e \in Elems : HostRemove(e)
    \/ \E e \in Elems : HostInsertWrapped(e)
    \/ \E e \in Elems : HostRemoveWrapper(e)
    \/ \E e \in Elems, v \in TestIds : HostSetAttr(e, v)
    \/ \E e \in Elems : HostRemoveAttr(e)
    \/ \E e \in Elems, b \in BOOLEAN : HostSetClass(e, b)
    \/ \E src \in Elems, e \in Elems : HostInsertClone(src, e)
    \/ ObserverCallback
    \/ \E t \in timers : FireDebounce(t)
    \/ \E e \in Elems : ClickElement(e)
    \/ ClickTooltip
    \/ \E i \in 1..MaxPending, ok \in BOOLEAN, execFails \in BOOLEAN :
            WriteSettles(i, ok, execFails)
    \/ \E t \in timers : FireFeedback(t)
    \/ \E e \in Elems : PointerEnter(e)
    \/ \E e \in Elems : PointerLeave(e)
    \/ PointerEnterTooltip
    \/ PointerLeaveTooltip
    \/ \E t \in timers : FireElementLeave(t)
    \/ \E t \in timers : FireTooltipLeave(t)
    \/ BeforeUnload
    \/ Tick

Spec == Init /\ [][Next]_vars

\* ------------------------------------------------------- narrower scopes
\* The reconciler against a page that changes: any initial document, the host
\* page, the observer, the debouncer and teardown; nobody hovers or clicks.
NextReconcile ==
    \/ LoadScript
    \/ \E e \in Elems : HostInsert(e)
    \/ \E e \in Elems : HostRemove(e)
    \/ \E e \in Elems, v \in TestIds : HostSetAttr(e, v)
    \/ \E e \in Elems : HostRemoveAttr(e)
    \/ \E e \in Elems, b \in BOOLEAN : HostSetClass(e, b)
    \/ \E src \in Elems, e \in Elems : HostInsertClone(src, e)
    \/ ObserverCallback
    \/ \E t \in timers : FireDebounce(t)
    \/ BeforeUnload
    \/ Tick

InitReconcile == Init /\ clipboardApi /\ wrapped = [e \in Elems |-> FALSE]

SpecReconcile == InitReconcile /\ [][NextReconcile]_vars

\* The user against a page that stands still: every element is attached and
\* has an identifier of its own, or else the last one has no data-testid and
\* carries the class 'test-id-highlight' from the host page's own stylesheet.
UserIds == [e \in Elems |-> IF e = 1 THEN "a" ELSE "b"]

InitUser ==
    /\ inDoc = [e \in Elems |-> TRUE]
    /\ wrapped = [e \in Elems |-> FALSE]
    /\ \E hostClass \in BOOLEAN :
          /\ testid = [e \in Elems |-> IF hostClass /\ e = NumElems
                                        THEN NoAttr ELSE UserIds[e]]
          /\ hasClass = [e \in Elems |-> hostClass /\ e = NumElems]
    /\ InitScript

NextUser ==
    \/ LoadScript
    \/ \E e \in Elems : ClickElement(e)
    \/ ClickTooltip
    \/ \E i \in 1..MaxPending, ok \in BOOLEAN, execFails \in BOOLEAN :
            WriteSettles(i, ok, execFails)
    \/ \E t \in timers : FireFeedback(t)
    \/ \E e \in Elems : PointerEnter(e)
    \/ \E e \in Elems : PointerLeave(e)
    \/ PointerEnterTooltip
    \/ PointerLeaveTooltip
    \/ \E t \in timers : FireElementLeave(t)
    \/ \E t \in timers : FireTooltipLeave(t)
    \/ BeforeUnload
    \/ Tick

SpecUser == InitUser /\ [][NextUser]_vars

\* The observer against a page that inserts, removes and re-marks elements,
\* bare or inside a wrapper; the page never touches the class and nobody
\* hovers, clicks or unloads.  Delivery of mutation records, the passing of
\* time and the firing of a due timer are the event loop's and always happen.
HostStep ==
    \/ \E e \in Elems : HostInsert(e)
    \/ \E e \in Elems : HostRemove(e)
    \/ \E e \in Elems : HostInsertWrapped(e)
    \/ \E e \in Elems : HostRemoveWrapper(e)
    \/ \E e \in Elems, v \in TestIds : HostSetAttr(e, v)
    \/ \E e \in Elems : HostRemoveAttr(e)

NextObserver ==
    \/ LoadScript
    \/ HostStep
    \/ ObserverCallback
    \/ \E t \in timers : FireDebounce(t)
    \/ Tick

InitObserver == Init /\ clipboardApi /\ hasClass = [e \in Elems |-> FALSE]

SpecObserver ==
    /\ InitObserver /\ [][NextObserver]_vars
    /\ WF_vars(LoadScript)
    /\ WF_vars(ObserverCallback)
    /\ WF_vars(\E t \in timers : FireDebounce(t))
    /\ WF_vars(Tick)

\* The reconciler when an attachment may throw: the page inserts, removes and
\* re-marks elements and never touches the class.
NextAttach ==
    \/ LoadScript
    \/ \E e \in Elems : HostInsert(e)
    \/ \E e \in Elems : HostRemove(e)
    \/ \E e \in Elems, v \in TestIds : HostSetAttr(e, v)
    \/ \E e \in Elems : HostRemoveAttr(e)
    \/ ObserverCallback
    \/ \E t \in timers : FireDebounce(t)
    \/ \E t \in timers, e \in Elems, done \in 1..(Len(AttachWrites) - 1) :
            FireDebounceThrows(t, e, done)
    \/ Tick

InitAttach == InitObserver /\ wrapped = [e \in Elems |-> FALSE]

SpecAttach == InitAttach /\ [][NextAttach]_vars

\* Clicks on a page that takes identifiers away: every element is attached
\* and has an identifier of its own at first, the page empties or removes
\* data-testid, the pointer comes over an element and stays, and the user
\* clicks elements and the tooltip.
NextClick ==
    \/ LoadScript
    \/ \E e \in Elems : Truthy(testid[e]) /\ HostSetAttr(e, "")
    \/ \E e \in Elems : HostRemoveAttr(e)
    \/ ObserverCallback
    \/ \E t \in timers : FireDebounce(t)
    \/ \E e \in Elems : PointerEnter(e)
    \/ \E e \in Elems : ClickElement(e)
    \/ ClickTooltip
    \/ \E i \in 1..MaxPending, ok \in BOOLEAN, execFails \in BOOLEAN :
            WriteSettles(i, ok, execFails)
    \/ \E t \in timers : FireFeedback(t)
    \/ Tick

InitClick ==
    /\ inDoc = [e \in Elems |-> TRUE]
    /\ testid = UserIds
    /\ wrapped = [e \in Elems |-> FALSE]
    /\ hasClass = [e \in Elems |-> FALSE]
    /\ InitScript

SpecClick == InitClick /\ [][NextClick]_vars

\* ================================================================ claims
Qualifies(e) == inDoc[e] /\ Truthy(testid[e])
NoListeners(e) == \A ev \in EventTypes : listeners[e][ev] = 0
DebounceTimers == {t \in timers : t.kind = "debounce"}

\* C1 (as claimed): whenever no element has changed since the last
\* scanAndHighlight pass, every attached element with a non-empty data-testid
\* is in trackedElements, has an elementData entry and carries the class.
C1_Coverage ==
    (started /\ ~dirty) =>
        \A e \in Elems :
            Qualifies(e) => /\ e \in trackedElements
                            /\ e \in elementData
                            /\ hasClass[e]

\* C2: whenever no element has changed since the last pass, a further
\* scanAndHighlight leaves classes, listeners, elementData and trackedElements
\* as they are and attaches and detaches nothing; and a debounced pass that
\* did run on an unchanged document attached and detached nothing.
C2_IdempotentScan ==
    /\ (started /\ ~dirty) => scanAndHighlight(Annot) = Annot
    /\ (passLog.valid /\ passLog.clean) =>
            passLog.attach = 0 /\ passLog.detach = 0

C2_Witness ==
    /\ started /\ ~dirty
    /\ passLog.valid /\ passLog.clean
    /\ trackedElements # {}

\* C3: a step into a state that is consistent with a finished pass (the passes
\* are the only steps from a changed document to such a state) leaves every
\* tracked element that is still attached and still has the attribute tracked
\* and untouched, and leaves every other tracked element untracked, without
\* elementData entry, listeners or class.
C3_CleanupOnRemoval ==
    [][ ~dirty' =>
          \A e \in trackedElements :
              IF inDoc[e] /\ testid[e] # NoAttr
              THEN /\ e \in trackedElements' /\ e \in elementData'
                   /\ listeners'[e] = listeners[e]
                   /\ hasClass'[e] = hasClass[e]
              ELSE /\ e \notin trackedElements' /\ e \notin elementData'
                   /\ \A ev \in EventTypes : listeners'[e][ev] = 0
                   /\ ~hasClass'[e] ]_vars

C3_Witness ==
    /\ ~dirty /\ passLog.valid /\ passLog.detach > 0
    /\ trackedElements # {}
    /\ \E e \in Elems :
           /\ ~inDoc[e] \/ testid[e] = NoAttr
           /\ e \notin trackedElements /\ NoListeners(e) /\ ~hasClass[e]

\* C4: the debounced calls made since the last debounced pass are served by
\* exactly one pending timer, the one `timeout` names, due DebounceWait after
\* the last of them; and a debounced pass runs DebounceWait after the last
\* call of its burst, for a burst of at least one call.
C4_DebounceCollapse ==
    /\ Cardinality(DebounceTimers) = (IF burst > 0 THEN 1 ELSE 0)
    /\ \A t \in DebounceTimers :
           t.id = timeout /\ t.remaining = DebounceWait - sinceCall
    /\ passLog.valid => passLog.elapsed = DebounceWait /\ passLog.calls >= 1

C4_Witness ==
    /\ passLog.valid /\ passLog.calls = MaxBurst
    /\ burst = 0 /\ DebounceTimers = {}

\* C5 (as claimed): the document never holds two feedback nodes, and once no
\* clipboard write is in flight a feedback node in the document shows the
\* identifier of the copy action that was started last.
C5_SingleLatestFeedback ==
    /\ Len(feedback) <= 1
    /\ (pending = << >> /\ feedback # << >>) =>
            feedback[1] = FeedbackText(lastInitiated)

\* what the beforeunload handler leaves, apart from the classes
TeardownPost ==
    /\ trackedElements' = {} /\ elementData' = {}
    /\ \A e \in Elems : \A ev \in EventTypes : listeners'[e][ev] = 0
    /\ activeTimeouts' = {}
    /\ ~observing'
    /\ tooltip' = {}
    /\ feedback' = << >>

\* C6 (as claimed): when the beforeunload handler finishes nothing is tracked,
\* no element has a listener or the class, activeTimeouts is empty, the
\* observer is disconnected and neither tooltip nor feedback node remains.
C6_TeardownOriginal ==
    [][ BeforeUnload => (TeardownPost /\ \A e \in Elems : ~hasClass'[e]) ]_vars

\* C6 (amended): as above, but of the classes only this: no element that was
\* tracked keeps the class, and the handler adds it to none.
C6_Teardown ==
    [][ BeforeUnload =>
          /\ TeardownPost
          /\ \A e \in Elems :
                 hasClass'[e] => (hasClass[e] /\ e \notin trackedElements) ]_vars

C6_Witness ==
    /\ torndown.done /\ torndown.full
    /\ trackedElements = {} /\ activeTimeouts = {}
    /\ tooltip = {} /\ feedback = << >>
    /\ \E e \in Elems : hasClass[e]

\* C7 (as claimed): once the beforeunload handler has run, no pending timer
\* or clipboard write of the script acts any more: nothing is tracked or
\* listened to again and no tooltip or feedback node enters the document.
C7_TeardownIsFinal ==
    torndown.done =>
        /\ trackedElements = {}
        /\ \A e \in Elems : NoListeners(e)
        /\ tooltip = {} /\ feedback = << >>

\* C8: a completed copy action has called showCopyFeedback exactly once,
\* whether the clipboard write succeeded or failed.
C8_FeedbackOnce ==
    lastCopy.valid => lastCopy.shown = 1

C8_Witness ==
    /\ lastCopy.valid /\ ~lastCopy.ok
    /\ feedback = << FeedbackText(lastInitiated) >>
    /\ clipboardApi

\* C9: a completed copy action ran the fallback once if the clipboard write
\* failed and not at all if it succeeded; no exception left the handler, the
\* textarea is out of the document and the feedback was shown, also when the
\* fallback's copy command failed.
C9_Fallback ==
    lastCopy.valid =>
        /\ lastCopy.fallback = (IF lastCopy.ok THEN 0 ELSE 1)
        /\ ~lastCopy.threw
        /\ ~lastCopy.textArea
        /\ lastCopy.shown > 0

C9_Witness ==
    /\ lastCopy.valid /\ lastCopy.execFailed /\ lastCopy.fallback = 1
    /\ feedback # << >>

\* C10: an element is in trackedElements iff it has an elementData entry, iff
\* each of the three listeners of highlightElement is attached to it (once).
C10_Membership ==
    \A e \in Elems :
        /\ (e \in trackedElements) <=> (e \in elementData)
        /\ IF e \in trackedElements
           THEN \A ev \in EventTypes : listeners[e][ev] = 1
           ELSE \A ev \in EventTypes : listeners[e][ev] = 0

C10_Witness ==
    /\ torndown.done /\ passLog.valid
    /\ \E e \in Elems : e \in trackedElements
    /\ \E e \in Elems : e \notin trackedElements /\ Qualifies(e)

\* C11 (as claimed): no deferred removal, the timer of an element's mouseleave
\* or the timer of the tooltip's own mouseleave, removes the tooltip while the
\* pointer is over the tooltip; the pointer may have left the tooltip and come
\* back before the timer fires.
C11_TooltipSurvivesHover ==
    [][ (\E t \in timers : FireElementLeave(t) \/ FireTooltipLeave(t)) =>
            (pointer = {TooltipNode} => tooltip' = tooltip) ]_vars

\* the annotations agree with the live document
Consistent ==
    /\ started
    /\ trackedElements = {e \in Elems : Qualifies(e)}
    /\ \A e \in Elems : ~Qualifies(e) => (NoListeners(e) /\ ~hasClass[e])

\* C12 (as claimed): once the host page stops inserting, removing and
\* re-marking elements, and timers fire, trackedElements eventually is, and
\* stays, exactly the set of attached elements with a non-empty data-testid,
\* and no other element holds listeners or the class.
C12_EventualConsistency ==
    []<><<HostStep>>_vars \/ <>[]Consistent

\* C13 (as claimed): whenever no element has changed since the last
\* scanAndHighlight pass, every element in trackedElements is attached to the
\* document and has a non-empty data-testid; so a tracked element whose
\* data-testid was set to the empty string is detached by the next pass.
C13_TrackedQualify ==
    (started /\ ~dirty) => \A e \in trackedElements : Qualifies(e)

\* C14: no element ever has more than one mouseenter, one mouseleave or one
\* click listener of highlightElement, whatever the page does to the class or
\* to the element's place in the document between passes; and highlightElement
\* on an element that has an elementData entry changes and attaches nothing.
C14_NoDoubleBinding ==
    /\ \A e \in Elems : \A ev \in EventTypes : listeners[e][ev] <= 1
    /\ \A e \in elementData : highlightElement(Annot, e) = Annot

\* a pass ran on a tracked element whose class the page had taken off
C14_Witness ==
    /\ started /\ ~dirty /\ passLog.valid /\ ~torndown.done
    /\ \E e \in trackedElements :
           /\ Qualifies(e) /\ ~hasClass[e]
           /\ \A ev \in EventTypes : listeners[e][ev] = 1

\* a step that runs scanAndHighlight: the initial run or the debounce timer
PassStep == LoadScript \/ \E t \in timers : FireDebounce(t)

\* C15: at most one timer of debouncedScanAndHighlight is pending in every
\* state, none before the initial run has finished, and when a pass ends no
\* such timer is pending: the next pass waits for a later debounced call.
\* (A pass is synchronous, lines 201-214, hence a single step.)
C15_OnePendingReconciliation ==
    [][ /\ Cardinality(DebounceTimers) <= 1
        /\ Cardinality(DebounceTimers') <= 1
        /\ ~started => DebounceTimers = {}
        /\ PassStep => DebounceTimers' = {} ]_vars

\* a second burst after a debounced pass: one timer serves its calls
C15_Witness ==
    /\ passLog.valid /\ burst = MaxBurst
    /\ Cardinality(DebounceTimers) = 1
    /\ Cardinality(records) = MaxBatch

\* the record adds or removes a node that bears data-testid (with any value)
\* or holds a descendant that does, or it is a change of data-testid
BearsMarker(m) ==
    \/ /\ m.type \in {"added", "removed"}
       /\ testid[m.node] # NoAttr
       /\ m.wrapper => wrapped[m.node]
    \/ m.type = "attributes"

\* C16 (as claimed): the observer callback makes one debounced call if at least
\* one record of its batch adds or removes an element that bears data-testid or
\* holds a descendant bearing it, or is a change of data-testid; otherwise it
\* schedules nothing; and it never runs scanAndHighlight itself.
C16_MutationFilter ==
    [][ ObserverCallback =>
          /\ IF \E m \in records : BearsMarker(m)
             THEN LET d == executedFunction(timers, timeout)
                  IN  /\ timers' = d.timers /\ timeout' = d.timeout
                      /\ burst' = Min(burst + 1, MaxBurst) /\ sinceCall' = 0
             ELSE UNCHANGED << timers, timeout, burst, sinceCall >>
          /\ UNCHANGED << annotVars, passLog >> ]_vars

FeedbackTimers == {t \in timers : t.kind = "feedback"}

\* activeTimeouts and the feedback node agree
PendingTimers ==
    /\ Cardinality(activeTimeouts) <= 1
    /\ \A id \in activeTimeouts : \E t \in FeedbackTimers : t.id = id /\ t.live
    /\ \A t \in FeedbackTimers : t.id \in activeTimeouts
    /\ activeTimeouts # {} <=> feedback # << >>
    /\ Len(feedback) <= 1

\* C17: in every state activeTimeouts holds at most one id, each id in it is
\* that of a pending feedback timer whose node is in the document, no timer of
\* an earlier feedback node is pending (so none can remove a later node), the
\* node in the document has its own timer pending, and when that timer fires
\* the node is removed and activeTimeouts is empty.
C17_PendingTimers ==
    [][ /\ PendingTimers
        /\ PendingTimers'
        /\ (\E t \in timers : FireFeedback(t)) =>
               (feedback' = << >> /\ activeTimeouts' = {}) ]_vars

\* a feedback node went when its own timer fired
C17_Witness ==
    /\ lastCopy.valid /\ ~torndown.done
    /\ pending = << >>
    /\ feedback = << >> /\ activeTimeouts = {} /\ FeedbackTimers = {}

\* C18 (as claimed): when highlightElement fails part-way on an element, that
\* element is left without the class, without listeners, without elementData
\* entry and out of trackedElements.
C18_AttachAllOrNothing ==
    [][ \A t \in timers, e \in Elems, done \in 1..(Len(AttachWrites) - 1) :
            FireDebounceThrows(t, e, done) =>
                /\ ~hasClass'[e]
                /\ \A ev \in EventTypes : listeners'[e][ev] = 0
                /\ e \notin elementData'
                /\ e \notin trackedElements' ]_vars

\* a click handler that changes nothing the copy action would
NoCopyEffects ==
    UNCHANGED << pending, lastCopy, lastInitiated, feedback, timers,
                 activeTimeouts, tooltip >>

\* C19: highlightElement on an element whose data-testid is missing or empty
\* changes nothing; a click on an annotated element, or on the tooltip of one,
\* whose data-testid is missing or empty at that moment starts no clipboard
\* write, runs no fallback and creates no feedback node or timer.
C19_EmptyIdNoOp ==
    [][ /\ \A e \in Elems :
              ~Truthy(testid[e]) => highlightElement(Annot, e) = Annot
        /\ \A e \in Elems :
              (ClickElement(e) /\ ~Truthy(testid[e])) => NoCopyEffects
        /\ (ClickTooltip /\ \E e \in tooltip : ~Truthy(testid[e])) =>
              NoCopyEffects ]_vars

\* a click found the identifier of an annotated element missing or empty
C19_Witness ==
    /\ lastClick = "return"
    /\ tooltip # {} /\ tooltip \subseteq trackedElements
    /\ \A e \in tooltip : ~Truthy(testid[e]) /\ listeners[e]["click"] = 1
    /\ pending = << >> /\ feedback = << >> /\ activeTimeouts = {}

\* C20 (as claimed): the timer set when the pointer left element A does not
\* remove the tooltip of another element B that the pointer has entered since
\* and is still over.
C20_OwnTooltipOnly ==
    [][ \A t \in timers :
            FireElementLeave(t) =>
                \A b \in Elems :
                    (b # t.el /\ tooltip = {b} /\ pointer = {b}) => tooltip' = {b} ]_vars

====
